---- MODULE Spec2Model ----
(***************************************************************************)
(* A model of the stanford-mcp tool server: the bearer-token Auth Gate     *)
(* (src/src/auth.py), the Starlette routing in front of it                 *)
(* (src/src/app.py), tool auto-discovery (src/src/tools/__init__.py), the  *)
(* dispatch of tool calls, and the check-time-conflicts handler            *)
(* (src/src/tools/course_catalog/course_catalog.py).                       *)
(*                                                                         *)
(* Text is modelled as a sequence of one-character strings, so that        *)
(* startswith, lower and split are computed rather than assumed.           *)
(***************************************************************************)
EXTENDS Integers, Sequences, FiniteSets, TLC

VARIABLES
    auth_cfg,       \* the arguments require_bearer_token was built with
    auth_call,      \* what the last inbound ASGI call did
    disc,           \* the progress of register_all_tools over tools/
    ctc_call,       \* the last check-time-conflicts call and what it returned
    dsp,            \* the Registry and the last call_tool request
    loop,           \* the event loop and the tool calls in flight on it
    conn            \* the cached CourseConnection and its uses

vars == <<auth_cfg, auth_call, disc, ctc_call, dsp, loop, conn>>

\* ---- bounds of the model ----
MaxHeaders == 2     \* headers carried by one inbound call
MaxEntries == 2     \* entries of the tools directory
MaxSelections == 3  \* selections in one check-time-conflicts call
MaxCalls == 2       \* tool calls in flight at the same time
MaxResets == 3      \* resets of the connection cache
MaxRegistrations == 3  \* register_tool calls in one run

(***************************************************************************)
(* Text helpers                                                            *)
(***************************************************************************)

UpperLetters ==
    <<"A","B","C","D","E","F","G","H","I","J","K","L","M",
      "N","O","P","Q","R","S","T","U","V","W","X","Y","Z">>

LowerLetters ==
    <<"a","b","c","d","e","f","g","h","i","j","k","l","m",
      "n","o","p","q","r","s","t","u","v","w","x","y","z">>

\* str.lower() on one character
LowerChar(c) ==
    IF \E i \in 1..Len(UpperLetters) : UpperLetters[i] = c
    THEN LowerLetters[CHOOSE i \in 1..Len(UpperLetters) : UpperLetters[i] = c]
    ELSE c

\* str.lower()
Lower(s) == [i \in 1..Len(s) |-> LowerChar(s[i])]

\* str.startswith(prefix)
StartsWith(s, prefix) ==
    /\ Len(s) >= Len(prefix)
    /\ SubSeq(s, 1, Len(prefix)) = prefix

\* the index of the first sep in s, 0 when there is none
RECURSIVE FindFrom(_, _, _)
FindFrom(s, sep, i) ==
    IF i > Len(s) THEN 0
    ELSE IF s[i] = sep THEN i
    ELSE FindFrom(s, sep, i + 1)

\* s.split(sep, 1): one or two parts
Split1(s, sep) ==
    LET i == FindFrom(s, sep, 1) IN
    IF i = 0 THEN <<s>>
    ELSE <<SubSeq(s, 1, i - 1), SubSeq(s, i + 1, Len(s))>>

\* The byte 0xFF, which is valid in no UTF-8 text; every other byte of the
\* model is ASCII and is written as its character.
BadByte == "xFF"

\* bytes.decode() raises UnicodeDecodeError on a byte string that is not UTF-8
DecodeRaises(b) == \E i \in 1..Len(b) : b[i] = BadByte

\* bytes.decode() of an ASCII byte string: the same characters
Decode(b) == [i \in 1..Len(b) |-> b[i]]

\* Optional[str]
None == [none |-> TRUE, s |-> <<>>]
Some(s) == [none |-> FALSE, s |-> s]

\* Python truthiness of an Optional[str]: None and "" are falsy
Falsy(o) == o.none \/ o.s = <<>>

(***************************************************************************)
(* Auto-Discovery: src/src/tools/__init__.py                               *)
(***************************************************************************)

\* What importing (or executing) one module of a handler group does:
\*   "absent"           there is no such file
\*   "import_raises"    executing the module raises
\*   "no_register"      it loads and defines no callable register_all
\*   "register_ok"      it loads; its register_all returns
\*   "register_raises"  it loads; its register_all raises
ModuleStates ==
    {"absent", "import_raises", "no_register", "register_ok", "register_raises"}

\* A directory entry of tools/: a plain file, or a handler-group directory
\* with its package (__init__), <name>.py, tool.py and <name>.tool.py.
\* A package always exists once the directory does (a namespace package
\* when there is no __init__.py), so it is never "absent".
GroupLayouts ==
    [is_dir : {TRUE}, pkg : ModuleStates \ {"absent"}, same_name : ModuleStates,
     tool : ModuleStates, name_tool : ModuleStates]

FileEntry ==
    [is_dir |-> FALSE, pkg |-> "no_register", same_name |-> "absent",
     tool |-> "absent", name_tool |-> "absent"]

DirEntries == GroupLayouts \cup {FileEntry}

\* the progress of one group's discovery: the events so far, how often a
\* register_all was invoked, whether one returned, and how the step ended:
\*   "next"       go on with the next convention
\*   "continue"   this group is done (the loop's continue)
\*   "propagate"  an exception leaves register_all_tools
Progress(events, invoked, registered, ends) ==
    [events |-> events, invoked |-> invoked, registered |-> registered,
     ends |-> ends]

\* __init__.py 13-23 called from the else branch of 45-51: the package was
\* imported; register_all is called outside any try
CallPackageRegister(st, conv) ==
    CASE st = "register_ok" ->
            Progress(<<"import:" \o conv, "invoke:" \o conv>>, 1, TRUE, "continue")
      [] st = "register_raises" ->
            Progress(<<"import:" \o conv, "invoke:" \o conv, "raise:" \o conv>>,
                     1, FALSE, "propagate")
      [] OTHER -> Progress(<<"import:" \o conv>>, 0, FALSE, "next")

\* an import failure that is not caught
ImportFailed_propagates(conv) ==
    Progress(<<"import_failed:" \o conv>>, 0, FALSE, "propagate")

\* __init__.py 47-48, 58-61, 68-71, 94-95: the exception of a failed import
\* is caught (and logged, or passed over when it is ModuleNotFoundError)
ImportFailed(conv) ==
    Progress(<<"import_failed:" \o conv>>, 0, FALSE, "next")

\* __init__.py 58-59, 68-69: ModuleNotFoundError is passed over silently
ModuleMissing(conv) ==
    Progress(<<"not_found:" \o conv>>, 0, FALSE, "next")

\* __init__.py 44-51: 1) import the package itself
TryPackage(e) ==
    IF e.pkg = "import_raises" THEN ImportFailed("pkg")
    ELSE CallPackageRegister(e.pkg, "pkg")

\* __init__.py 13-23 called inside the try of 54-61, 64-71 or 85-95:
\* register_all is called inside the try, so its exception is caught there
\* and the next convention is tried
CallModuleRegister(st, conv) ==
    CASE st = "register_ok" ->
            Progress(<<"import:" \o conv, "invoke:" \o conv>>, 1, TRUE, "continue")
      [] st = "register_raises" ->
            Progress(<<"import:" \o conv, "invoke:" \o conv, "raise:" \o conv>>,
                     1, FALSE, "next")
      [] OTHER -> Progress(<<"import:" \o conv>>, 0, FALSE, "next")

\* __init__.py 53-61 and 63-71: 2) tools/<name>/<name>.py, 3) tools/<name>/tool.py
\* by import_module, which imports the package first
TryModule(e, st, conv) ==
    IF e.pkg = "import_raises" \/ st = "import_raises" THEN ImportFailed(conv)
    ELSE IF st = "absent" THEN ModuleMissing(conv)
    ELSE CallModuleRegister(st, conv)

\* __init__.py 81-95: one candidate file of the path-based fallback, executed
\* from its path without importing the package
TryCandidate(st, conv) ==
    IF st = "absent" THEN Progress(<<>>, 0, FALSE, "next")
    ELSE IF st = "import_raises" THEN ImportFailed(conv)
    ELSE CallModuleRegister(st, conv)

\* q after p: the events and invocations of both
Then(p, q) ==
    Progress(p.events \o q.events, p.invoked + q.invoked,
             p.registered \/ q.registered, q.ends)

\* __init__.py 73-98: 4) the candidates in order, up to the first that registers
TryFallback(e) ==
    LET c1 == TryCandidate(e.same_name, "path_same_name")
        c2 == TryCandidate(e.tool, "path_tool")
        c3 == TryCandidate(e.name_tool, "path_name_tool")
    IN  IF c1.ends # "next" THEN c1
        ELSE IF Then(c1, c2).ends # "next" THEN Then(c1, c2)
        ELSE Then(Then(c1, c2), c3)

\* __init__.py 37-98: the body of the loop for one directory entry
discover_entry(e) ==
    IF ~e.is_dir THEN Progress(<<>>, 0, FALSE, "continue")
    ELSE
    LET s1 == TryPackage(e)
        s2 == Then(s1, TryModule(e, e.same_name, "same_name"))
        s3 == Then(s2, TryModule(e, e.tool, "tool"))
        s4 == Then(s3, TryFallback(e))
    IN  IF s1.ends # "next" THEN s1
        ELSE IF s2.ends # "next" THEN s2
        ELSE IF s3.ends # "next" THEN s3
        ELSE s4

\* what is kept of an entry once the loop has moved on
EntrySummary(e, p) ==
    [is_dir |-> e.is_dir,
     import_failed |->
        \E i \in 1..Len(p.events) :
            p.events[i] \in {"import_failed:pkg", "import_failed:same_name",
                             "import_failed:tool", "import_failed:path_same_name",
                             "import_failed:path_tool", "import_failed:path_name_tool"},
     well_formed |->
        /\ e.is_dir
        /\ {e.pkg, e.same_name, e.tool, e.name_tool}
                \cap {"import_raises", "register_raises"} = {}
        /\ "register_ok" \in {e.pkg, e.same_name, e.tool, e.name_tool},
     invoked |-> p.invoked,
     registered |-> p.registered]

NoProgress == Progress(<<>>, 0, FALSE, "continue")

InitDisc ==
    [pc |-> "scanning", seen |-> <<>>, entry |-> FileEntry, last |-> NoProgress]

(***************************************************************************)
(* check-time-conflicts: src/src/tools/course_catalog/course_catalog.py    *)
(***************************************************************************)

\* A time label as the catalog records it.  kind "none" is a missing
\* attribute, "text" is text that is no time (such as "TBD"), "time" is
\* h:m or h:m:s, with or without a meridiem and a space before it.
NoLabel == [kind |-> "none", h |-> 0, m |-> 0, has_sec |-> FALSE, sp |-> FALSE,
            mer |-> "", text |-> "None"]
TextLabel(t) == [kind |-> "text", h |-> 0, m |-> 0, has_sec |-> FALSE, sp |-> FALSE,
                 mer |-> "", text |-> t]
\* "h:mm:00 AM" / "h:mm:00 PM", the form the catalog uses
Meridiem(h, m, mer, t) == [kind |-> "time", h |-> h, m |-> m, has_sec |-> TRUE,
                           sp |-> TRUE, mer |-> mer, text |-> t]
\* "HH:MM"
Clock24(h, m, t) == [kind |-> "time", h |-> h, m |-> m, has_sec |-> FALSE,
                     sp |-> FALSE, mer |-> "", text |-> t]

\* Optional[int]
NoInt == [none |-> TRUE, n |-> 0]
SomeInt(n) == [none |-> FALSE, n |-> n]

\* course_catalog.py 278-294: _parse_time_to_minutes.  The formats are
\* "%I:%M %p", "%I:%M%p", "%I:%M:%S %p" (hour 1..12 and a meridiem; with
\* seconds only when a space precedes the meridiem), then "%H:%M", "%H:%M:%S"
\* (hour 0..23, no meridiem); the result is hour * 60 + minute of the parsed
\* 24-hour time.
ParseTimeToMinutes(value) ==
    IF value.kind # "time" THEN NoInt
    ELSE IF value.mer # ""
         THEN IF value.h \in 1..12 /\ value.m \in 0..59 /\ (value.has_sec => value.sp)
              THEN SomeInt(((value.h % 12) + (IF value.mer = "PM" THEN 12 ELSE 0)) * 60
                           + value.m)
              ELSE NoInt
    ELSE IF value.h \in 0..23 /\ value.m \in 0..59
         THEN SomeInt(value.h * 60 + value.m)
         ELSE NoInt

\* the labels of the catalog
L_0800 == Meridiem(8, 0, "AM", "8:00:00 AM")
L_0830 == Meridiem(8, 30, "AM", "8:30:00 AM")
L_0900 == Meridiem(9, 0, "AM", "9:00:00 AM")
L_1100 == Meridiem(11, 0, "AM", "11:00:00 AM")
L_1200 == Meridiem(12, 0, "PM", "12:00:00 PM")
L_2300 == Meridiem(11, 0, "PM", "11:00:00 PM")
L_0100 == Meridiem(1, 0, "AM", "1:00:00 AM")
L_TBD == TextLabel("TBD")

GridLabels == <<L_0800, L_0830, L_0900, L_1100, L_1200,
      Meridiem(1, 0, "PM", "1:00:00 PM")>>

Schedule(start_time, end_time, days) ==
    [start_time |-> start_time, end_time |-> end_time, days |-> days]

Section(class_id, schedules) == [class_id |-> class_id, schedules |-> schedules]

\* The remote catalog.  Course 1 has one section for every window between
\* two labels of the grid, on Monday: section 10 * i + j meets from the
\* i-th to the j-th label.  Course 2 has the sections that are special.
GridWindows ==
    <<<<1,2>>, <<1,3>>, <<1,4>>, <<1,5>>, <<1,6>>, <<2,3>>, <<2,4>>, <<2,5>>,
      <<2,6>>, <<3,4>>, <<3,5>>, <<3,6>>, <<4,5>>, <<4,6>>, <<5,6>>>>

Course1 ==
    [course_id |-> 1,
     sections |->
        [k \in 1..Len(GridWindows) |->
            Section(10 * GridWindows[k][1] + GridWindows[k][2],
                    <<Schedule(GridLabels[GridWindows[k][1]],
                               GridLabels[GridWindows[k][2]], <<"Monday">>)>>)]]

Course2 ==
    [course_id |-> 2,
     sections |->
        <<Section(21, <<Schedule(L_TBD, L_TBD, <<"Monday">>)>>),
          Section(22, <<Schedule(L_2300, L_0100, <<"Monday">>)>>),
          Section(23, <<Schedule(L_0800, L_1200, <<"Tuesday">>)>>),
          Section(24, <<Schedule(L_0830, L_0900, <<"Monday", "Tuesday">>)>>),
          Section(25, <<Schedule(L_0900, L_1100, <<>>)>>),
          Section(26, <<>>),
          Section(27, <<Schedule(Clock24(9, 0, "09:00"), Clock24(11, 0, "11:00"),
                                <<"Monday">>)>>),
          Section(28, <<Schedule(L_TBD, L_0900, <<"Monday">>),
                        Schedule(L_0900, L_1100, <<"Monday">>)>>),
          Section(29, <<Schedule(L_1200, L_0100, <<"Monday">>)>>)>>]

Catalog == <<Course1, Course2>>

Days == {"Monday", "Tuesday"}

\* a JSON value where a number is expected: a number or something else
Num(n) == [isnum |-> TRUE, n |-> n]
NotNum == [isnum |-> FALSE, n |-> 0]

\* one element of "selections": an object with two fields, or not an object
Selection(course_id, section_id) ==
    [isdict |-> TRUE, course_id |-> course_id, section_id |-> section_id]
NotADict == [isdict |-> FALSE, course_id |-> NotNum, section_id |-> NotNum]

\* the (course_id, section_id) pairs of the catalog
CatalogKeys ==
    UNION {{<<Catalog[c].course_id, Catalog[c].sections[k].class_id>> :
                k \in 1..Len(Catalog[c].sections)} : c \in 1..Len(Catalog)}

\* the elements a caller may send: every section of the catalog, a course
\* and a section the catalog does not have, and the malformed ones
SelectionItems ==
    {Selection(Num(key[1]), Num(key[2])) : key \in CatalogKeys}
    \cup {Selection(Num(9), Num(12)), Selection(Num(1), Num(99)),
          Selection(NotNum, Num(12)), Selection(Num(1), NotNum), NotADict}

\* arguments.get("selections"): absent or not a list, or a list
NotAList == [islist |-> FALSE, items |-> <<>>]
ListOf(items) == [islist |-> TRUE, items |-> items]

\* course_catalog.py 326: api.get_courses_by_query(course_id, ...) when the
\* remote catalog answers: the candidate courses of the query
get_courses_by_query(course_id) == Catalog

\* course_catalog.py 326-331: the first candidate with this course_id
RECURSIVE FindCourse(_, _, _)
FindCourse(candidates, course_id, i) ==
    IF i > Len(candidates) THEN 0
    ELSE IF candidates[i].course_id = course_id THEN i
    ELSE FindCourse(candidates, course_id, i + 1)

\* course_catalog.py 335-339: the first section with this class_id
RECURSIVE FindSection(_, _, _)
FindSection(sections, section_id, i) ==
    IF i > Len(sections) THEN 0
    ELSE IF sections[i].class_id = section_id THEN i
    ELSE FindSection(sections, section_id, i + 1)

\* what the handler has collected so far: the days in the order their
\* buckets were created, the bucket of every day, and the notes
EmptyCollected ==
    [day_order |-> <<>>, buckets |-> [d \in Days |-> <<>>], messages |-> <<>>]

\* course_catalog.py 364-373: append the interval to the bucket of each day
RECURSIVE AddToBuckets(_, _, _, _)
AddToBuckets(acc, days, interval, i) ==
    IF i > Len(days) THEN acc
    ELSE AddToBuckets(
            [acc EXCEPT
                !.day_order = IF \E k \in 1..Len(@) : @[k] = days[i]
                              THEN @ ELSE Append(@, days[i]),
                !.buckets[days[i]] = Append(@, interval)],
            days, interval, i + 1)

\* schedules that drop a window they cannot use without a word
RECURSIVE AddSchedules_silent(_, _, _, _, _)
AddSchedules_silent(acc, schedules, course_id, section_id, i) ==
    IF i > Len(schedules) THEN acc
    ELSE
    LET sched == schedules[i]
        start_min == ParseTimeToMinutes(sched.start_time)
        end_min == ParseTimeToMinutes(sched.end_time)
    IN  IF start_min.none \/ end_min.none \/ sched.days = <<>>
        THEN AddSchedules_silent(acc, schedules, course_id, section_id, i + 1)
        ELSE AddSchedules_silent(
                AddToBuckets(acc, sched.days,
                    [course_id |-> course_id, section_id |-> section_id,
                     start |-> start_min.n, end |-> end_min.n,
                     start_str |-> sched.start_time.text,
                     end_str |-> sched.end_time.text], 1),
                schedules, course_id, section_id, i + 1)

\* course_catalog.py 348-373: the schedules of one section
RECURSIVE AddSchedules(_, _, _, _, _)
AddSchedules(acc, schedules, course_id, section_id, i) ==
    IF i > Len(schedules) THEN acc
    ELSE
    LET sched == schedules[i]
        start_min == ParseTimeToMinutes(sched.start_time)
        end_min == ParseTimeToMinutes(sched.end_time)
    IN  IF start_min.none \/ end_min.none
        THEN AddSchedules(
                [acc EXCEPT !.messages = Append(@,
                    [kind |-> "unparseable", course_id |-> course_id,
                     section_id |-> section_id,
                     start_str |-> sched.start_time.text,
                     end_str |-> sched.end_time.text])],
                schedules, course_id, section_id, i + 1)
        ELSE IF sched.days = <<>>
        THEN AddSchedules(
                [acc EXCEPT !.messages = Append(@,
                    [kind |-> "no_days", course_id |-> course_id,
                     section_id |-> section_id, start_str |-> "", end_str |-> ""])],
                schedules, course_id, section_id, i + 1)
        ELSE AddSchedules(
                AddToBuckets(acc, sched.days,
                    [course_id |-> course_id, section_id |-> section_id,
                     start |-> start_min.n, end |-> end_min.n,
                     start_str |-> sched.start_time.text,
                     end_str |-> sched.end_time.text], 1),
                schedules, course_id, section_id, i + 1)

\* the handler raised
RaisedIn(exc, msg) == [raised |-> exc, message |-> msg, collected |-> EmptyCollected]
Collected(acc) == [raised |-> "", message |-> "", collected |-> acc]

\* course_catalog.py 316-373: validate every selection in turn and collect
\* its intervals; the first invalid selection raises
RECURSIVE CollectSelections(_, _, _, _)
CollectSelections(acc, selections, remote, i) ==
    IF i > Len(selections) THEN Collected(acc)
    ELSE
    LET item == selections[i] IN
    IF ~item.isdict
    THEN RaisedIn("TypeError", "Each selection must be an object with course_id and section_id.")
    ELSE IF ~item.course_id.isnum THEN RaisedIn("TypeError", "course_id must be a number.")
    ELSE IF ~item.section_id.isnum THEN RaisedIn("TypeError", "section_id must be a number.")
    ELSE IF remote = "down" THEN RaisedIn("ConnectionError", "get_courses_by_query failed")
    ELSE
    LET c == FindCourse(get_courses_by_query(item.course_id.n), item.course_id.n, 1) IN
    IF c = 0 THEN RaisedIn("ValueError", "Invalid course_id")
    ELSE
    LET k == FindSection(Catalog[c].sections, item.section_id.n, 1) IN
    IF k = 0 THEN RaisedIn("ValueError", "Invalid section_id")
    ELSE
    LET schedules == Catalog[c].sections[k].schedules IN
    IF schedules = <<>>
    THEN CollectSelections(
            [acc EXCEPT !.messages = Append(@,
                [kind |-> "no_schedules", course_id |-> item.course_id.n,
                 section_id |-> item.section_id.n, start_str |-> "", end_str |-> ""])],
            selections, remote, i + 1)
    ELSE CollectSelections(
            AddSchedules(acc, schedules, item.course_id.n, item.section_id.n, 1),
            selections, remote, i + 1)

\* the sort key of course_catalog.py 378: (start, end), compared as tuples
KeyLessEq(a, b) == a.start < b.start \/ (a.start = b.start /\ a.end <= b.end)

\* x put into the sorted s behind every element whose key is not greater
RECURSIVE InsertSorted(_, _)
InsertSorted(s, x) ==
    IF s = <<>> THEN <<x>>
    ELSE IF KeyLessEq(s[Len(s)], x) THEN Append(s, x)
    ELSE Append(InsertSorted(SubSeq(s, 1, Len(s) - 1), x), s[Len(s)])

\* course_catalog.py 378: list.sort(key=...), which is stable
RECURSIVE SortIntervals(_)
SortIntervals(s) ==
    IF s = <<>> THEN <<>>
    ELSE InsertSorted(SortIntervals(SubSeq(s, 1, Len(s) - 1)), s[Len(s)])

\* course_catalog.py 296-300: _format_conflict_line
FormatConflictLine(day, a, b) ==
    [day |-> day,
     a |-> [course_id |-> a.course_id, section_id |-> a.section_id,
            start_str |-> a.start_str, end_str |-> a.end_str],
     b |-> [course_id |-> b.course_id, section_id |-> b.section_id,
            start_str |-> b.start_str, end_str |-> b.end_str]]

\* a scan that takes a window to include its end minute
RECURSIVE ScanDay_closed(_, _, _)
ScanDay_closed(day, intervals, i) ==
    IF i > Len(intervals) THEN <<>>
    ELSE (IF i > 1 /\ intervals[i].start <= intervals[i - 1].end
          THEN <<FormatConflictLine(day, intervals[i - 1], intervals[i])>>
          ELSE <<>>)
         \o ScanDay_closed(day, intervals, i + 1)

\* course_catalog.py 379-385: each interval of the sorted list is compared
\* with the one just before it
RECURSIVE ScanDay(_, _, _)
ScanDay(day, intervals, i) ==
    IF i > Len(intervals) THEN <<>>
    ELSE (IF i > 1 /\ intervals[i].start < intervals[i - 1].end
          THEN <<FormatConflictLine(day, intervals[i - 1], intervals[i])>>
          ELSE <<>>)
         \o ScanDay(day, intervals, i + 1)

\* course_catalog.py 375-385: the conflicts of every day, in the order of
\* the days' buckets
RECURSIVE DetectConflicts(_, _)
DetectConflicts(acc, d) ==
    IF d > Len(acc.day_order) THEN <<>>
    ELSE ScanDay(acc.day_order[d], SortIntervals(acc.buckets[acc.day_order[d]]), 1)
         \o DetectConflicts(acc, d + 1)

\* lines that say "no conflicts" only when there is no note either
OutLines_quiet(messages, conflicts) ==
    <<[line |-> "header"]>>
    \o (IF messages # <<>>
        THEN <<[line |-> "notes_title"]>>
             \o [i \in 1..Len(messages) |-> [line |-> "note", note |-> messages[i]]]
        ELSE <<>>)
    \o (IF conflicts # <<>>
        THEN <<[line |-> "conflicts_title"]>>
             \o [i \in 1..Len(conflicts) |-> [line |-> "conflict", conflict |-> conflicts[i]]]
        ELSE IF messages = <<>> THEN <<[line |-> "no_conflicts"]>> ELSE <<>>)

\* course_catalog.py 387-398: the lines of the one text item
OutLines(messages, conflicts) ==
    <<[line |-> "header"]>>
    \o (IF messages # <<>>
        THEN <<[line |-> "notes_title"]>>
             \o [i \in 1..Len(messages) |-> [line |-> "note", note |-> messages[i]]]
        ELSE <<>>)
    \o (IF conflicts # <<>>
        THEN <<[line |-> "conflicts_title"]>>
             \o [i \in 1..Len(conflicts) |-> [line |-> "conflict", conflict |-> conflicts[i]]]
        ELSE <<[line |-> "no_conflicts"]>>)

\* what a handler returned: the exception it raised ("" when none) or its
\* content
HandlerRaised(exc, msg) ==
    [raised |-> exc, message |-> msg, conflicts |-> <<>>, messages |-> <<>>,
     buckets |-> EmptyCollected.buckets, lines |-> <<>>]

NoResult == HandlerRaised("", "")

\* a handler that answers an invalid selection with an empty report
check_time_conflicts_handler_partial(selections, remote) ==
    LET got == IF selections.islist
               THEN CollectSelections(EmptyCollected, selections.items, remote, 1)
               ELSE Collected(EmptyCollected)
        conflicts == DetectConflicts(got.collected, 1)
    IN  [raised |-> "", message |-> "", conflicts |-> conflicts,
         messages |-> got.collected.messages,
         buckets |-> [d \in Days |-> SortIntervals(got.collected.buckets[d])],
         lines |-> OutLines(got.collected.messages, conflicts)]

\* course_catalog.py 302-398
check_time_conflicts_handler(selections, remote) ==
    IF ~selections.islist \/ selections.items = <<>>
    THEN HandlerRaised("ValueError",
            "'selections' must be a non-empty array of {course_id, section_id}.")
    ELSE
    LET got == CollectSelections(EmptyCollected, selections.items, remote, 1) IN
    IF got.raised # "" THEN HandlerRaised(got.raised, got.message)
    ELSE
    LET conflicts == DetectConflicts(got.collected, 1) IN
    [raised |-> "", message |-> "", conflicts |-> conflicts,
     messages |-> got.collected.messages,
     buckets |-> [d \in Days |-> SortIntervals(got.collected.buckets[d])],
     lines |-> OutLines(got.collected.messages, conflicts)]

IdleCtcCall ==
    [phase |-> "idle", selections |-> NotAList, remote |-> "up", out |-> NoResult]

(***************************************************************************)
(* The other handlers: course_catalog.py, filtering.py, weather.py          *)
(***************************************************************************)

\* A JSON value of an argument bundle: absent from the bundle, null, a
\* boolean, a number, a string (s) or a list (l) of such values.
JAbsent == [t |-> "absent", b |-> FALSE, n |-> 0, s |-> <<>>, l |-> <<>>]
JNull == [t |-> "null", b |-> FALSE, n |-> 0, s |-> <<>>, l |-> <<>>]
JBool(b) == [t |-> "bool", b |-> b, n |-> 0, s |-> <<>>, l |-> <<>>]
JNum(n) == [t |-> "num", b |-> FALSE, n |-> n, s |-> <<>>, l |-> <<>>]
JStr(s) == [t |-> "str", b |-> FALSE, n |-> 0, s |-> s, l |-> <<>>]
JList(l) == [t |-> "list", b |-> FALSE, n |-> 0, s |-> <<>>, l |-> l]

\* Python truthiness of arguments.get(field)
Truthy(v) ==
    CASE v.t \in {"absent", "null"} -> FALSE
      [] v.t = "bool" -> v.b
      [] v.t = "num" -> v.n # 0
      [] v.t = "str" -> v.s # <<>>
      [] OTHER -> v.l # <<>>

\* str.strip() of the spaces at both ends
RECURSIVE Strip(_)
Strip(s) ==
    IF s = <<>> THEN s
    ELSE IF s[1] = " " THEN Strip(SubSeq(s, 2, Len(s)))
    ELSE IF s[Len(s)] = " " THEN Strip(SubSeq(s, 1, Len(s) - 1))
    ELSE s

T_Autumn == <<"A","u","t","u","m","n">>
T_Fall == <<"F","a","l","l">>
T_sp_WINTER == <<" ","W","I","N","T","E","R">>
T_CA == <<"C","A">>
T_Engineering == <<"E","n","g","i","n","e","e","r","i","n","g">>
T_all == <<"a","l","l">>

\* filtering.py 6-11: the keys of TERM_MAP
TermKeys ==
    {<<"a","u","t","u","m","n">>, <<"w","i","n","t","e","r">>,
     <<"s","p","r","i","n","g">>, <<"s","u","m","m","e","r">>}

\* what a handler did: the exception it raised ("" when it returned) and the
\* content it returned, a sequence of text items
Raises(exc, msg) == [raised |-> exc, message |-> msg, content |-> <<>>]
Returns(content) == [raised |-> "", message |-> "", content |-> content]
Text(text) == [type |-> "text", text |-> text]

\* filtering.py 120-128: every term is a string whose stripped, lowered form
\* is a key of TERM_MAP
RECURSIVE CheckTerms(_, _)
CheckTerms(terms, i) ==
    IF i > Len(terms) THEN Returns(<<>>)
    ELSE IF terms[i].t # "str" THEN Raises("TypeError", "Each term must be a string.")
    ELSE IF Lower(Strip(terms[i].s)) \notin TermKeys
         THEN Raises("ValueError", "Invalid term")
    ELSE CheckTerms(terms, i + 1)

\* filtering.py 100-139 with require_terms = True; the optional filter lists
\* (ug_reqs, units, times, days, careers) are absent from the bundles of the
\* model, for which 131-137 add nothing
build_filters_from_arguments(terms) ==
    IF terms.t # "list" \/ terms.l = <<>>
    THEN Raises("ValueError", "'terms' must be a non-empty array of term names.")
    ELSE CheckTerms(terms.l, 1)

Schools == <<T_Engineering>>

\* course_catalog.py 51-74
list_schools_handler(arguments, remote) ==
    LET include_count == arguments.include_department_count IN
    IF include_count.t \in {"absent", "null"}
    THEN Raises("ValueError", "Missing required argument 'include_department_count' (boolean).")
    ELSE IF include_count.t # "bool"
    THEN Raises("TypeError", "Invalid type for 'include_department_count': expected boolean")
    ELSE IF remote.catalog = "down" THEN Raises("ConnectionError", "get_schools failed")
    ELSE Returns(<<Text(IF include_count.b THEN "Schools with counts" ELSE "Schools")>>)

\* course_catalog.py 92-118
list_departments_handler(arguments, remote) ==
    LET school == IF arguments.school.t = "absent" THEN JStr(T_all) ELSE arguments.school IN
    IF remote.catalog = "down" THEN Raises("ConnectionError", "get_schools failed")
    ELSE IF school.t = "str" /\ school.s \in {T_all, <<>>}
    THEN Returns(<<Text("departments of all schools")>>)
    ELSE IF school.t = "str" /\ \E i \in 1..Len(Schools) : Schools[i] = school.s
    THEN Returns(<<Text("departments of the school")>>)
    ELSE Raises("ValueError", "Unknown school")

\* course_catalog.py 181-186, 232-237: whether some candidate has the id
CourseFound(course_id) ==
    /\ course_id.t = "num"
    /\ \E i \in 1..Len(get_courses_by_query(course_id.n)) :
            get_courses_by_query(course_id.n)[i].course_id = course_id.n

\* course_catalog.py 167-188
get_course_handler(arguments, remote) ==
    LET terms == IF Truthy(arguments.terms) THEN arguments.terms
                 ELSE JList(<<JStr(T_Autumn)>>)
        fs == build_filters_from_arguments(terms)
    IN  IF fs.raised # "" THEN fs
        ELSE IF remote.catalog = "down"
        THEN Raises("ConnectionError", "get_courses_by_query failed")
        ELSE IF ~CourseFound(arguments.course_id)
        THEN Raises("ValueError", "No matches found with course_id")
        ELSE Returns(<<Text("course")>>)

\* course_catalog.py 210-248
get_schedule_handler(arguments, remote) ==
    LET term == arguments.term IN
    IF Truthy(term) /\ term.t # "str"
    THEN Raises("AttributeError", "object has no attribute 'strip'")
    ELSE
    LET term_arg == IF Truthy(term) THEN Lower(Strip(term.s)) ELSE <<>> IN
    IF term_arg # <<>> /\ term_arg \notin TermKeys
    THEN Raises("ValueError", "Invalid term")
    ELSE IF remote.catalog = "down"
    THEN Raises("ConnectionError", "get_courses_by_query failed")
    ELSE IF ~CourseFound(arguments.course_id)
    THEN Raises("ValueError", "No matches found with course_id")
    ELSE Returns(<<Text("sections")>>)

\* course_catalog.py 451-461
search_courses_handler(arguments, remote) ==
    LET keyword == IF arguments.keyword.t = "absent" THEN JStr(<<>>) ELSE arguments.keyword
        fs == build_filters_from_arguments(arguments.terms)
    IN  IF keyword.t # "str" THEN Raises("TypeError", "'keyword' must be a string.")
        ELSE IF fs.raised # "" THEN fs
        ELSE IF remote.catalog = "down"
        THEN Raises("ConnectionError", "get_courses_by_query failed")
        ELSE Raises("NotImplementedError", "IMPLEMENT FROM HERE (MARK)")

\* weather.py 13-25 and 53-71: make_nws_request gives None when the request
\* fails; get_alerts turns the data into a list of texts
get_alerts(nws) ==
    CASE nws \in {"failed", "no_features"} ->
            <<"Unable to fetch alerts or no alerts found.">>
      [] nws = "no_alerts" -> <<"No active alerts for this state.">>
      [] OTHER -> <<"alert 1", "alert 2">>

\* weather.py 136-146
get_alerts_handler(arguments, remote) ==
    LET state_raw == arguments.state IN
    IF state_raw.t # "str" \/ Len(Strip(state_raw.s)) # 2
    THEN Returns(<<Text("Invalid state code. Provide a two-letter US state code.")>>)
    ELSE LET alerts == get_alerts(remote.nws) IN
         Returns([i \in 1..Len(alerts) |-> Text(alerts[i])])

\* course_catalog.py 302-398 as a registered handler
check_time_conflicts(arguments, remote) ==
    LET out == check_time_conflicts_handler(arguments.selections, remote.catalog) IN
    IF out.raised # "" THEN Raises(out.raised, out.message)
    ELSE Returns(<<Text("Time Conflict Check")>>)

(***************************************************************************)
(* Registry and dispatch: tools/registry.py, of which the source holds     *)
(* only the callers; app.py 72-75 is the one caller of dispatch            *)
(***************************************************************************)

\* a register_tool that keeps the earlier entry and adds another one
register_tool_appends(registry, name, handler) ==
    Append(registry, [name |-> name, handler |-> handler])

\* register_tool(spec, handler): an entry under spec.name, replacing an
\* earlier entry of that name
register_tool(registry, name, handler) ==
    IF \E i \in 1..Len(registry) : registry[i].name = name
    THEN [i \in 1..Len(registry) |->
            IF registry[i].name = name THEN [name |-> name, handler |-> handler]
            ELSE registry[i]]
    ELSE Append(registry, [name |-> name, handler |-> handler])

\* list_all_tools(): the descriptors of the entries, in registration order
list_all_tools(registry) == [i \in 1..Len(registry) |-> registry[i].name]

\* course_catalog.py 463-469
course_catalog_register_all(registry) ==
    register_tool(register_tool(register_tool(register_tool(register_tool(
    register_tool(registry,
        "list-schools", "list_schools_handler"),
        "list-departments", "list_departments_handler"),
        "get-course", "get_course_handler"),
        "get-schedule", "get_schedule_handler"),
        "check-time-conflicts", "check_time_conflicts_handler"),
        "search-courses", "search_courses_handler")

\* weather.py 165-166
weather_register_all(registry) ==
    register_tool(registry, "get-alert", "get_alerts_handler")

\* notification.py 56-57
notification_register_all(registry) ==
    register_tool(registry, "start-notification-stream", "start")

\* the handler a registry entry holds, applied
Invoke(handler, arguments, remote) ==
    CASE handler = "list_schools_handler" -> list_schools_handler(arguments, remote)
      [] handler = "list_departments_handler" -> list_departments_handler(arguments, remote)
      [] handler = "get_course_handler" -> get_course_handler(arguments, remote)
      [] handler = "get_schedule_handler" -> get_schedule_handler(arguments, remote)
      [] handler = "check_time_conflicts_handler" -> check_time_conflicts(arguments, remote)
      [] handler = "search_courses_handler" -> search_courses_handler(arguments, remote)
      [] OTHER -> get_alerts_handler(arguments, remote)

\* what dispatch gave its caller, content or an error of some kind, and the
\* handler it invoked ("" when none)
DispatchResult(content, invoked) ==
    [kind |-> "result", error |-> "", content |-> content, invoked |-> invoked]
DispatchError(error, invoked) ==
    [kind |-> "error", error |-> error, content |-> <<>>, invoked |-> invoked]
NoDispatch == [kind |-> "none", error |-> "", content |-> <<>>, invoked |-> ""]

\* the position of name in the registry, 0 when it has no entry
Lookup(registry, name) ==
    IF \E i \in 1..Len(registry) : registry[i].name = name
    THEN CHOOSE i \in 1..Len(registry) : registry[i].name = name
    ELSE 0

\* a dispatch that hands an unknown name to the first registered handler
dispatch_falls_back(registry, name, arguments, remote) ==
    LET i == IF Lookup(registry, name) = 0 THEN 1 ELSE Lookup(registry, name)
        out == Invoke(registry[i].handler, arguments, remote)
    IN  IF out.raised # "" THEN DispatchError("HandlerFailure", registry[i].handler)
        ELSE DispatchResult(out.content, registry[i].handler)

\* a dispatch that lets the handler's exception through
dispatch_lets_through(registry, name, arguments, remote) ==
    LET i == Lookup(registry, name) IN
    IF i = 0 THEN DispatchError("UnknownCommand", "")
    ELSE LET out == Invoke(registry[i].handler, arguments, remote) IN
         IF out.raised # "" THEN [kind |-> "escaped", error |-> out.raised, content |-> <<>>,
               invoked |-> registry[i].handler]
         ELSE DispatchResult(out.content, registry[i].handler)

\* dispatch(name, arguments, ctx): UnknownCommand for a name without an
\* entry; otherwise the handler is invoked, its content is returned as it
\* is, and an exception it raises becomes a failure for the caller
dispatch(registry, name, arguments, remote) ==
    LET i == Lookup(registry, name) IN
    IF i = 0 THEN DispatchError("UnknownCommand", "")
    ELSE LET out == Invoke(registry[i].handler, arguments, remote) IN
         IF out.raised # "" THEN DispatchError("HandlerFailure", registry[i].handler)
         ELSE DispatchResult(out.content, registry[i].handler)

\* app.py 72-75
call_tool(registry, name, arguments, remote) ==
    dispatch(registry, name, arguments, remote)

\* the entries of tools/ in the repository: the two handler groups, each a
\* directory whose <name>.py defines register_all, and plain files
RepoEntry(name) ==
    IF name \in {"course_catalog", "weather"}
    THEN [is_dir |-> TRUE, pkg |-> "no_register", same_name |-> "register_ok",
          tool |-> "absent", name_tool |-> "absent"]
    ELSE FileEntry

\* the orders in which iterdir() may yield them
RepoListings ==
    {<<"course_catalog", "weather", "notification.py">>,
     <<"weather", "course_catalog", "notification.py">>,
     <<"notification.py", "weather", "course_catalog">>}

\* __init__.py 26-98 over a listing: the registry it leaves behind
RECURSIVE register_all_tools(_, _, _)
register_all_tools(listing, registry, i) ==
    IF i > Len(listing) THEN registry
    ELSE LET p == discover_entry(RepoEntry(listing[i])) IN
         register_all_tools(listing,
            IF ~p.registered THEN registry
            ELSE IF listing[i] = "course_catalog" THEN course_catalog_register_all(registry)
            ELSE weather_register_all(registry),
            i + 1)

\* the fields each inputSchema declares under "required", with the kind it
\* declares for them: course_catalog.py 41-44, 82, 126-136, 196-200,
\* 260-263, 410-420 and weather.py 104-107
RequiredFields(name) ==
    CASE name = "list-schools" -> {[field |-> "include_department_count", kind |-> "bool"]}
      [] name = "get-course" ->
            {[field |-> "course_id", kind |-> "num"], [field |-> "terms", kind |-> "list"]}
      [] name = "get-schedule" -> {[field |-> "course_id", kind |-> "num"]}
      [] name = "check-time-conflicts" -> {[field |-> "selections", kind |-> "list"]}
      [] name = "search-courses" ->
            {[field |-> "keyword", kind |-> "str"], [field |-> "terms", kind |-> "list"]}
      [] name = "get-alert" -> {[field |-> "state", kind |-> "str"]}
      [] OTHER -> {}

EmptyArguments ==
    [include_department_count |-> JAbsent, school |-> JAbsent, course_id |-> JAbsent,
     term |-> JAbsent, terms |-> JAbsent, keyword |-> JAbsent, state |-> JAbsent,
     selections |-> NotAList]

TermsValues ==
    {JAbsent, JList(<<>>), JList(<<JStr(T_Autumn)>>), JList(<<JStr(T_sp_WINTER)>>),
     JList(<<JStr(T_Fall)>>), JList(<<JNum(1)>>), JStr(T_Autumn)}

\* the argument bundles a caller sends under a name: for each tool the
\* fields it reads, over values of the right and of the wrong kind
ArgumentBundles(name) ==
    CASE name = "list-schools" ->
            {[EmptyArguments EXCEPT !.include_department_count = v] :
                v \in {JAbsent, JNull, JBool(TRUE), JBool(FALSE), JNum(1)}}
      [] name = "list-departments" ->
            {[EmptyArguments EXCEPT !.school = v] :
                v \in {JAbsent, JNull, JStr(<<>>), JStr(T_Engineering),
                       JStr(<<"N","o","w","h","e","r","e">>)}}
      [] name = "get-course" ->
            {[EmptyArguments EXCEPT !.course_id = c, !.terms = t] :
                c \in {JAbsent, JNum(1), JNum(9)}, t \in TermsValues}
      [] name = "get-schedule" ->
            {[EmptyArguments EXCEPT !.course_id = c, !.term = t] :
                c \in {JAbsent, JNum(1), JNum(9)},
                t \in {JAbsent, JStr(<<>>), JStr(T_sp_WINTER), JStr(T_Fall), JNum(5)}}
      [] name = "check-time-conflicts" ->
            {[EmptyArguments EXCEPT !.selections = v] :
                v \in {NotAList, ListOf(<<>>), ListOf(<<NotADict>>),
                       ListOf(<<Selection(Num(9), Num(12))>>),
                       ListOf(<<Selection(Num(1), Num(15)), Selection(Num(1), Num(23)),
                                Selection(Num(1), Num(46))>>)}}
      [] name = "search-courses" ->
            {[EmptyArguments EXCEPT !.keyword = k, !.terms = t] :
                k \in {JAbsent, JStr(<<"c","s">>), JNum(1)}, t \in TermsValues}
      [] name = "get-alert" ->
            {[EmptyArguments EXCEPT !.state = v] :
                v \in {JAbsent, JStr(T_CA), JNum(1),
                       JStr(<<"C","a","l","i","f","o","r","n","i","a">>)}}
      [] OTHER -> {EmptyArguments, [EmptyArguments EXCEPT !.state = JStr(T_CA)]}

\* the names a caller may send: the registered ones, two tools of the
\* source that no register_all registers, and a name of no tool
ToolNames ==
    {"list-schools", "list-departments", "get-course", "get-schedule",
     "check-time-conflicts", "search-courses", "get-alert",
     "get-forecast", "start-notification-stream", "no-such-tool"}

Remotes ==
    [catalog : {"up", "down"}, nws : {"failed", "no_features", "no_alerts", "alerts"}]

IdleRemote == [catalog |-> "up", nws |-> "alerts"]

InitDsp ==
    [phase |-> "idle", registry |-> <<>>, name |-> "", arguments |-> EmptyArguments,
     remote |-> IdleRemote, out |-> NoDispatch]

(***************************************************************************)
(* The event loop: one loop runs every call_tool activation                *)
(* (app.py 72-75); a handler keeps the loop until it awaits                *)
(***************************************************************************)

\* the names register_all of course_catalog.py and weather.py register
LoopTools ==
    LET registry == weather_register_all(course_catalog_register_all(<<>>)) IN
    {registry[i].name : i \in 1..Len(registry)}

\* weather.py 19-21, 61, 144: the lookup of get-alert is awaited down to
\* `await client.get(...)`. The lookups of course_catalog.py (62, 97, 177,
\* 229, 326, 459) are plain calls of api.get_schools and
\* api.get_courses_by_query with no await: the handler does not suspend.
AwaitsLookup(tool) == tool = "get-alert"

\* holder: the call whose handler keeps the loop, 0 when the loop is free;
\* a call in flight: its command, where its handler is, and whether the
\* handler ends before any lookup (its validation fails)
IdleLoop ==
    [holder |-> 0,
     calls |-> [c \in 1..MaxCalls |-> [tool |-> "", pc |-> "idle", early |-> FALSE]]]

(***************************************************************************)
(* The shared catalog connection: course_catalog.py 17-32                  *)
(***************************************************************************)

\* handle: the cached CourseConnection, 0 when the cache is empty; created:
\* how many CourseConnection() were constructed; resets: how many times the
\* cache was cleared; last and prev: the handles the two latest uses got and
\* the number of resets before each; user: the handler of the latest use
NoConnection ==
    [handle |-> 0, created |-> 0, resets |-> 0,
     last |-> [handle |-> 0, resets |-> 0], prev |-> [handle |-> 0, resets |-> 0],
     user |-> "", serving |-> TRUE]

\* a get_course_connection without the cache
get_course_connection_uncached(cn, user) ==
    [cn EXCEPT !.handle = cn.created + 1, !.created = cn.created + 1,
               !.prev = cn.last,
               !.last = [handle |-> cn.created + 1, resets |-> cn.resets],
               !.user = user]

\* course_catalog.py 18-27: lru_cache(maxsize=1) around CourseConnection()
get_course_connection(cn, user) ==
    IF cn.handle # 0
    THEN [cn EXCEPT !.prev = cn.last,
                    !.last = [handle |-> cn.handle, resets |-> cn.resets],
                    !.user = user]
    ELSE [cn EXCEPT !.handle = cn.created + 1, !.created = cn.created + 1,
                    !.prev = cn.last,
                    !.last = [handle |-> cn.created + 1, resets |-> cn.resets],
                    !.user = user]

\* course_catalog.py 30-32: get_course_connection.cache_clear()
reset_course_connection_cache(cn) ==
    [cn EXCEPT !.handle = 0, !.resets = cn.resets + 1]

(***************************************************************************)
(* Auth Gate: src/src/auth.py                                              *)
(***************************************************************************)

T_bearer_sp == <<"b","e","a","r","e","r"," ">>             \* "bearer "
T_mcp == <<"/","m","c","p">>                               \* "/mcp"
T_mcp_slash == <<"/","m","c","p","/">>                     \* "/mcp/"
T_root == <<"/">>                                          \* "/"
T_healthz == <<"/","h","e","a","l","t","h","z">>           \* "/healthz"
T_abc == <<"a","b","c">>
T_Authorization ==
    <<"A","u","t","h","o","r","i","z","a","t","i","o","n">>
T_authorization == Lower(T_Authorization)

\* a well-formed credential for the secret "abc", and bytes that are not UTF-8
V_Bearer_abc == <<"B","e","a","r","e","r"," ","a","b","c">>
V_not_utf8 == <<BadByte>>

\* header values an inbound call may carry (bytes)
HeaderValues ==
    {V_Bearer_abc,
     <<"b","E","A","R","E","R"," ","a","b","c">>,          \* "bEARER abc"
     <<"B","e","a","r","e","r"," ","a","b","c","d">>,      \* "Bearer abcd"
     <<"B","e","a","r","e","r"," ","a","b">>,              \* "Bearer ab"
     <<"B","e","a","r","e","r"," "," ","a","b","c">>,      \* "Bearer  abc"
     <<"B","e","a","r","e","r">>,                          \* "Bearer"
     <<"B","a","s","i","c"," ","a","b","c">>,              \* "Basic abc"
     <<>>,
     V_not_utf8}

\* (name, value) byte pairs, as in scope["headers"]
HeaderPairs ==
    {<<T_authorization, v>> : v \in HeaderValues}
        \cup {<<T_Authorization, V_Bearer_abc>>, <<<<"x","-","o","t","h","e","r">>, V_Bearer_abc>>}

HeaderLists ==
    UNION {[1..n -> HeaderPairs] : n \in 0..MaxHeaders}

\* ASGI scopes: http and websocket scopes carry a path and headers, a
\* lifespan scope carries neither.
Paths == {T_root, T_healthz, T_mcp, T_mcp_slash, <<"/","m","c","p","x">>}

Scopes ==
    {[type |-> "http", path |-> Some(p), headers |-> h] :
        p \in Paths, h \in HeaderLists}
    \cup {[type |-> "websocket", path |-> Some(p), headers |-> h] :
        p \in {T_healthz, T_mcp_slash}, h \in HeaderLists}
    \cup {[type |-> "lifespan", path |-> None, headers |-> <<>>]}

\* scope.get("path", "")
ScopePath(scope) == IF scope.path.none THEN <<>> ELSE scope.path.s

\* what one call to an ASGI app did: whether the wrapped app ran, the status
\* of the response it sent itself (0: none), whether that response carries
\* WWW-Authenticate: Bearer, and whether an exception left it
Forwarded ==
    [app_called |-> TRUE, status |-> 0, detail |-> "", challenge |-> FALSE,
     raised |-> FALSE]
\* a response that never carries the WWW-Authenticate header
Responded_bare(status, detail, challenge) ==
    [app_called |-> FALSE, status |-> status, detail |-> detail,
     challenge |-> FALSE, raised |-> FALSE]
Responded(status, detail, challenge) ==
    [app_called |-> FALSE, status |-> status, detail |-> detail,
     challenge |-> challenge, raised |-> FALSE]
Raised ==
    [app_called |-> FALSE, status |-> 0, detail |-> "", challenge |-> FALSE,
     raised |-> TRUE]
NoCall ==
    [app_called |-> FALSE, status |-> 0, detail |-> "", challenge |-> FALSE,
     raised |-> FALSE]

\* auth.py 22-26: the first header whose decoded, lowered name equals the
\* lowered header name; decoding a name or the matched value may raise
RECURSIVE FindHeader(_, _, _)
FindHeader(headers, header_name, i) ==
    IF i > Len(headers) THEN [raised |-> FALSE, value |-> None]
    ELSE IF DecodeRaises(headers[i][1]) THEN [raised |-> TRUE, value |-> None]
    ELSE IF Lower(Decode(headers[i][1])) = Lower(header_name)
         THEN IF DecodeRaises(headers[i][2])
              THEN [raised |-> TRUE, value |-> None]
              ELSE [raised |-> FALSE, value |-> Some(Decode(headers[i][2]))]
    ELSE FindHeader(headers, header_name, i + 1)

\* auth.py 7: only http scopes are inspected
IsHttp(scope) == scope.type = "http"

\* a gate that guards every path
OnProtectedPrefix_any(scope) == StartsWith(ScopePath(scope), T_root)

\* auth.py 12: path.startswith("/mcp")
OnProtectedPrefix(scope) == StartsWith(ScopePath(scope), T_mcp)

\* a gate that takes only None, and not "", for an unset secret
NoSecret_is_none(expected_token) == expected_token.none

\* auth.py 15: not expected_token
NoSecret(expected_token) == Falsy(expected_token)

\* auth.py 28: not header_value or not header_value.lower().startswith("bearer ")
LacksBearer(header_value) ==
    Falsy(header_value) \/ ~StartsWith(Lower(header_value.s), T_bearer_sp)

\* auth.py 35: header_value.split(" ", 1)[1]
BearerToken(header_value) == Split1(header_value.s, " ")[2]

\* auth.py 36: token != expected_token
TokenDiffers(token, expected_token) == token # expected_token.s

\* auth.py 6-43
auth_app(scope, header_name, expected_token) ==
    IF ~IsHttp(scope) THEN Forwarded
    ELSE IF ~OnProtectedPrefix(scope) THEN Forwarded
    ELSE IF NoSecret(expected_token)
         THEN Responded(500, "Server misconfigured: API_AUTH_TOKEN not set", FALSE)
    ELSE LET found == FindHeader(scope.headers, header_name, 1) IN
         IF found.raised THEN Raised
         ELSE IF LacksBearer(found.value)
              THEN Responded(401, "Missing bearer token", TRUE)
         ELSE IF TokenDiffers(BearerToken(found.value), expected_token)
              THEN Responded(401, "Invalid token", TRUE)
         ELSE Forwarded

(***************************************************************************)
(* Routing in front of the gate: src/src/app.py                            *)
(***************************************************************************)

\* app.py 118-122: Route("/"), Route("/healthz"), Mount("/mcp").  A Route
\* serves http scopes whose path is its path; the Mount serves http and
\* websocket scopes whose path starts with "/mcp/"; an http path that would
\* match with a "/" appended is redirected there; anything else is 404.
RouteOf(scope) ==
    LET p == ScopePath(scope) IN
    IF scope.type = "lifespan" THEN "lifespan"
    ELSE IF StartsWith(p, T_mcp_slash) THEN "protected_http"
    ELSE IF scope.type = "http" /\ p = T_root THEN "root_redirect"
    ELSE IF scope.type = "http" /\ p = T_healthz THEN "healthz"
    ELSE IF scope.type = "http" /\ p = T_mcp THEN "redirect_slashes"
    ELSE "not_found"

\* app.py 89-94, 97-102, 116-124: what the Starlette application does with a
\* scope; the mounted app is the gate, built from the configuration
starlette_app(scope, header_name, expected_token) ==
    LET r == RouteOf(scope) IN
    CASE r = "protected_http" -> auth_app(scope, header_name, expected_token)
      [] r = "root_redirect" -> Responded(307, "redirect", FALSE)
      [] r = "healthz" -> Responded(200, "ok", FALSE)
      [] r = "redirect_slashes" -> Responded(307, "redirect", FALSE)
      [] r = "not_found" -> Responded(404, "Not Found", FALSE)
      [] OTHER -> NoCall

\* the (header_name, expected_token) pairs require_bearer_token is built with
AuthCfgs ==
    {[header_name |-> T_Authorization, expected_token |-> t] :
        t \in {None, Some(<<>>), Some(T_abc)}}

NoScope == [type |-> "none", path |-> None, headers |-> <<>>]

IdleAuthCall == [phase |-> "idle", via |-> "none", scope |-> NoScope, out |-> NoCall]

InitAuth ==
    /\ auth_cfg \in AuthCfgs
    /\ auth_call = IdleAuthCall
    /\ disc = InitDisc
    /\ ctc_call = IdleCtcCall
    /\ dsp = InitDsp
    /\ loop = IdleLoop
    /\ conn = NoConnection

\* the transport delivers one inbound call, either to the gate itself or to
\* the Starlette application that mounts it
Receive ==
    /\ auth_call.phase = "idle"
    /\ \E scope \in Scopes, via \in {"gate", "app"} :
        auth_call' = [phase |-> "received", via |-> via, scope |-> scope,
                      out |-> NoCall]
    /\ UNCHANGED <<auth_cfg, disc, ctc_call, dsp, loop, conn>>

\* the gate handles the call it was handed
GateCall ==
    /\ auth_call.phase = "received"
    /\ auth_call.via = "gate"
    /\ auth_call' = [auth_call EXCEPT
            !.phase = "done",
            !.out = auth_app(auth_call.scope, auth_cfg.header_name,
                             auth_cfg.expected_token)]
    /\ UNCHANGED <<auth_cfg, disc, ctc_call, dsp, loop, conn>>

\* the Starlette application handles the call it was handed
AppCall ==
    /\ auth_call.phase = "received"
    /\ auth_call.via = "app"
    /\ auth_call' = [auth_call EXCEPT
            !.phase = "done",
            !.via = RouteOf(auth_call.scope),
            !.out = starlette_app(auth_call.scope, auth_cfg.header_name,
                                  auth_cfg.expected_token)]
    /\ UNCHANGED <<auth_cfg, disc, ctc_call, dsp, loop, conn>>

\* the call is over; the server waits for the next one
CallOver ==
    /\ auth_call.phase = "done"
    /\ auth_call' = IdleAuthCall
    /\ UNCHANGED <<auth_cfg, disc, ctc_call, dsp, loop, conn>>

NextAuth == Receive \/ GateCall \/ AppCall \/ CallOver

SpecAuth == InitAuth /\ [][NextAuth]_vars

(***************************************************************************)
(* Auto-Discovery: the loop of register_all_tools                          *)
(***************************************************************************)

\* one iteration of the loop over tools_dir.iterdir()
DiscoverEntry ==
    /\ disc.pc = "scanning"
    /\ Len(disc.seen) < MaxEntries
    /\ \E e \in DirEntries :
        LET p == discover_entry(e) IN
        disc' = [pc |-> IF p.ends = "propagate" THEN "aborted" ELSE "scanning",
                 seen |-> Append(disc.seen, EntrySummary(e, p)),
                 entry |-> e,
                 last |-> p]
    /\ UNCHANGED <<auth_cfg, auth_call, ctc_call, dsp, loop, conn>>

\* iterdir() is exhausted: register_all_tools returns
DiscoveryReturns ==
    /\ disc.pc = "scanning"
    /\ disc' = [disc EXCEPT !.pc = "done"]
    /\ UNCHANGED <<auth_cfg, auth_call, ctc_call, dsp, loop, conn>>

InitDiscovery ==
    /\ auth_cfg = [header_name |-> T_Authorization, expected_token |-> Some(T_abc)]
    /\ auth_call = IdleAuthCall
    /\ disc = InitDisc
    /\ ctc_call = IdleCtcCall
    /\ dsp = InitDsp
    /\ loop = IdleLoop
    /\ conn = NoConnection
    /\ ctc_call = IdleCtcCall

NextDiscovery == DiscoverEntry \/ DiscoveryReturns

SpecDiscovery == InitDiscovery /\ [][NextDiscovery]_vars


(***************************************************************************)
(* check-time-conflicts: calls                                             *)
(***************************************************************************)

\* the argument bundles of a call: "selections" absent, or a list of up to
\* MaxSelections elements
SelectionLists ==
    {NotAList} \cup
    {ListOf(items) : items \in UNION {[1..n -> SelectionItems] : n \in 0..MaxSelections}}

\* a caller submits a check-time-conflicts call; the remote catalog answers
\* its lookups, or fails them (a failed lookup ends the call at the first
\* selection that is looked up)
CtcReceive ==
    /\ ctc_call.phase = "idle"
    /\ \E selections \in SelectionLists, remote \in {"up", "down"} :
        /\ remote = "down" => Len(selections.items) <= 1
        /\ ctc_call' = [phase |-> "received", selections |-> selections,
                        remote |-> remote, out |-> NoResult]
    /\ UNCHANGED <<auth_cfg, auth_call, disc, dsp, loop, conn>>

\* the handler runs to its end
CtcHandle ==
    /\ ctc_call.phase = "received"
    /\ ctc_call' = [ctc_call EXCEPT
            !.phase = "done",
            !.out = check_time_conflicts_handler(ctc_call.selections, ctc_call.remote)]
    /\ UNCHANGED <<auth_cfg, auth_call, disc, dsp, loop, conn>>

\* the result is returned; the server waits for the next call
CtcOver ==
    /\ ctc_call.phase = "done"
    /\ ctc_call' = IdleCtcCall
    /\ UNCHANGED <<auth_cfg, auth_call, disc, dsp, loop, conn>>

InitConflicts ==
    /\ auth_cfg = [header_name |-> T_Authorization, expected_token |-> Some(T_abc)]
    /\ auth_call = IdleAuthCall
    /\ disc = InitDisc
    /\ ctc_call = IdleCtcCall
    /\ dsp = InitDsp
    /\ loop = IdleLoop
    /\ conn = NoConnection

NextConflicts == CtcReceive \/ CtcHandle \/ CtcOver

SpecConflicts == InitConflicts /\ [][NextConflicts]_vars

(***************************************************************************)
(* Dispatch: calls                                                         *)
(***************************************************************************)

\* main() of app.py 63 has run register_all_tools over some listing of tools/
Startup ==
    /\ dsp.phase = "idle" /\ dsp.registry = <<>>
    /\ \E listing \in RepoListings :
        dsp' = [dsp EXCEPT !.phase = "serving",
                           !.registry = register_all_tools(listing, <<>>, 1)]
    /\ UNCHANGED <<auth_cfg, auth_call, disc, ctc_call, loop, conn>>

\* a caller sends a tools/call request
ToolRequest ==
    /\ dsp.phase = "serving"
    /\ \E name \in ToolNames, remote \in Remotes :
        \E arguments \in ArgumentBundles(name) :
            dsp' = [dsp EXCEPT !.phase = "received", !.name = name,
                               !.arguments = arguments, !.remote = remote,
                               !.out = NoDispatch]
    /\ UNCHANGED <<auth_cfg, auth_call, disc, ctc_call, loop, conn>>

\* call_tool handles the request
CallTool ==
    /\ dsp.phase = "received"
    /\ dsp' = [dsp EXCEPT
            !.phase = "done",
            !.out = call_tool(dsp.registry, dsp.name, dsp.arguments, dsp.remote)]
    /\ UNCHANGED <<auth_cfg, auth_call, disc, ctc_call, loop, conn>>

\* the reply is sent; an exception that left call_tool is answered by the
\* server loop, which goes on serving
Reply ==
    /\ dsp.phase = "done"
    /\ dsp' = [dsp EXCEPT !.phase = "serving", !.name = "",
                          !.arguments = EmptyArguments, !.remote = IdleRemote,
                          !.out = NoDispatch]
    /\ UNCHANGED <<auth_cfg, auth_call, disc, ctc_call, loop, conn>>

InitDispatch ==
    /\ auth_cfg = [header_name |-> T_Authorization, expected_token |-> Some(T_abc)]
    /\ auth_call = IdleAuthCall
    /\ disc = InitDisc
    /\ ctc_call = IdleCtcCall
    /\ dsp = InitDsp
    /\ loop = IdleLoop
    /\ conn = NoConnection

NextDispatch == Startup \/ ToolRequest \/ CallTool \/ Reply

SpecDispatch == InitDispatch /\ [][NextDispatch]_vars

(***************************************************************************)
(* Registry: any sequence of register_tool calls                           *)
(***************************************************************************)

\* the names and the handlers the calls draw from
RegNames == {"get-alert", "get-course", "list-schools"}
RegHandlers == {"get_alerts_handler", "get_course_handler"}

\* a module calls register_tool(spec, handler); calls holds the calls made
Register ==
    /\ dsp.phase = "registering"
    /\ Len(dsp.calls) < MaxRegistrations
    /\ \E name \in RegNames, handler \in RegHandlers :
        dsp' = [dsp EXCEPT
            !.registry = register_tool(dsp.registry, name, handler),
            !.calls = Append(dsp.calls, [name |-> name, handler |-> handler])]
    /\ UNCHANGED <<auth_cfg, auth_call, disc, ctc_call, loop, conn>>

InitRegistry ==
    /\ auth_cfg = [header_name |-> T_Authorization, expected_token |-> Some(T_abc)]
    /\ auth_call = IdleAuthCall
    /\ disc = InitDisc
    /\ ctc_call = IdleCtcCall
    /\ dsp = [phase |-> "registering", registry |-> <<>>, calls |-> <<>>]
    /\ loop = IdleLoop
    /\ conn = NoConnection

NextRegistry == Register

SpecRegistry == InitRegistry /\ [][NextRegistry]_vars

(***************************************************************************)
(* Startup: main() of src/src/app.py, from the configuration to the        *)
(* listener                                                                *)
(***************************************************************************)

\* a main() that never refuses to start
MissingToken_never(api_auth_token) == FALSE

\* app.py 55-57: config("API_AUTH_TOKEN", cast=str, default=None) is None
\* for an unset key and "" for a key set to nothing; not api_auth_token
MissingToken(api_auth_token) == Falsy(api_auth_token)

\* app.py 54-58: the configuration is read and a missing token raises
\* RuntimeError, which ends the process before anything else ran
LoadConfig ==
    /\ dsp.phase = "idle"
    /\ dsp' = [dsp EXCEPT !.phase = IF MissingToken(auth_cfg.expected_token)
                                    THEN "exited" ELSE "configured"]
    /\ UNCHANGED <<auth_cfg, auth_call, disc, ctc_call, loop, conn>>

\* app.py 60-63: register_all_tools() over some listing of tools/
RegisterTools ==
    /\ dsp.phase = "configured"
    /\ \E listing \in RepoListings :
        dsp' = [dsp EXCEPT !.phase = "registered",
                           !.registry = register_all_tools(listing, <<>>, 1)]
    /\ UNCHANGED <<auth_cfg, auth_call, disc, ctc_call, loop, conn>>

\* app.py 66-140: the handlers and the routes are set up and uvicorn.run
\* binds the listener; from here on calls are accepted
RunServer ==
    /\ dsp.phase = "registered"
    /\ dsp' = [dsp EXCEPT !.phase = "serving"]
    /\ UNCHANGED <<auth_cfg, auth_call, disc, ctc_call, loop, conn>>

\* the process is launched with any of the configurations of .env
InitMain ==
    /\ auth_cfg \in AuthCfgs
    /\ auth_call = IdleAuthCall
    /\ disc = InitDisc
    /\ ctc_call = IdleCtcCall
    /\ dsp = InitDsp
    /\ loop = IdleLoop
    /\ conn = NoConnection

NextMain == LoadConfig \/ RegisterTools \/ RunServer \/ ToolRequest \/ CallTool \/ Reply

SpecMain == InitMain /\ [][NextMain]_vars

(***************************************************************************)
(* Event loop: concurrent calls                                            *)
(***************************************************************************)

\* a caller submits a call; its task waits for the loop. Every handler but
\* list_departments_handler can end on its validation before any lookup.
LoopSubmit(c) ==
    /\ loop.calls[c].pc = "idle"
    /\ \E tool \in LoopTools, early \in BOOLEAN :
        /\ early => tool # "list-departments"
        /\ loop' = [loop EXCEPT !.calls[c] =
                        [tool |-> tool, pc |-> "pending", early |-> early]]
    /\ UNCHANGED <<auth_cfg, auth_call, disc, ctc_call, dsp, conn>>

\* the loop runs the task of call c up to its first suspension: the handler
\* ends early, or it starts its lookup. An awaited lookup gives the loop
\* back; a lookup that is a plain call keeps it until the remote answers.
LoopRun(c) ==
    /\ loop.holder = 0
    /\ loop.calls[c].pc = "pending"
    /\ loop' =
        IF loop.calls[c].early THEN [loop EXCEPT !.calls[c].pc = "done"]
        ELSE IF AwaitsLookup(loop.calls[c].tool)
             THEN [loop EXCEPT !.calls[c].pc = "lookup"]
             ELSE [loop EXCEPT !.calls[c].pc = "lookup", !.holder = c]
    /\ UNCHANGED <<auth_cfg, auth_call, disc, ctc_call, dsp, conn>>

\* the remote answers (or fails) the lookup of call c: an awaiting task
\* becomes ready again, a handler inside a plain call runs on to its end
LoopRemoteAnswers(c) ==
    /\ loop.calls[c].pc = "lookup"
    /\ loop' =
        IF AwaitsLookup(loop.calls[c].tool)
        THEN [loop EXCEPT !.calls[c].pc = "ready"]
        ELSE [loop EXCEPT !.calls[c].pc = "done", !.holder = 0]
    /\ UNCHANGED <<auth_cfg, auth_call, disc, ctc_call, dsp, conn>>

\* the loop resumes a task whose awaited lookup has been answered
LoopResume(c) ==
    /\ loop.holder = 0
    /\ loop.calls[c].pc = "ready"
    /\ loop' = [loop EXCEPT !.calls[c].pc = "done"]
    /\ UNCHANGED <<auth_cfg, auth_call, disc, ctc_call, dsp, conn>>

\* the result of call c is sent to its caller
LoopDeliver(c) ==
    /\ loop.calls[c].pc = "done"
    /\ loop' = [loop EXCEPT !.calls[c] = IdleLoop.calls[c]]
    /\ UNCHANGED <<auth_cfg, auth_call, disc, ctc_call, dsp, conn>>

\* the server after startup: no call in flight, no connection made
InitLoop ==
    /\ auth_cfg = [header_name |-> T_Authorization, expected_token |-> Some(T_abc)]
    /\ auth_call = IdleAuthCall
    /\ disc = InitDisc
    /\ ctc_call = IdleCtcCall
    /\ dsp = InitDsp
    /\ loop = IdleLoop
    /\ conn = NoConnection

NextLoop ==
    \E c \in 1..MaxCalls :
        LoopSubmit(c) \/ LoopRun(c) \/ LoopRemoteAnswers(c) \/ LoopResume(c)
            \/ LoopDeliver(c)

SpecLoop == InitLoop /\ [][NextLoop]_vars

(***************************************************************************)
(* Catalog connection: uses and resets                                     *)
(***************************************************************************)

\* a handler of course_catalog.py runs `api = get_course_connection()`
\* (lines 59, 94, 169, 212, 307, 458)
ConnUse ==
    /\ \E tool \in LoopTools \ {"get-alert"} :
            conn' = get_course_connection(conn, tool)
    /\ UNCHANGED <<auth_cfg, auth_call, disc, ctc_call, dsp, loop>>

\* reset_course_connection_cache is called while the application serves
ConnReset ==
    /\ conn.serving
    /\ conn.resets < MaxResets
    /\ conn' = reset_course_connection_cache(conn)
    /\ UNCHANGED <<auth_cfg, auth_call, disc, ctc_call, dsp, loop>>

\* app.py 104-113: the lifespan ends and its finally clause resets the cache
ConnShutdown ==
    /\ conn.serving
    /\ conn.resets < MaxResets
    /\ conn' = [reset_course_connection_cache(conn) EXCEPT !.serving = FALSE]
    /\ UNCHANGED <<auth_cfg, auth_call, disc, ctc_call, dsp, loop>>

\* app.py 104-108: the lifespan of the same process is entered again
ConnLifespan ==
    /\ ~conn.serving
    /\ conn' = [conn EXCEPT !.serving = TRUE]
    /\ UNCHANGED <<auth_cfg, auth_call, disc, ctc_call, dsp, loop>>

NextConn == ConnUse \/ ConnReset \/ ConnShutdown \/ ConnLifespan

SpecConn == InitLoop /\ [][NextConn]_vars

(***************************************************************************)
(* Auth Gate claims                                                        *)
(***************************************************************************)

\* the call the gate has just handled
GateDone == auth_call.phase = "done" /\ auth_call.via \in {"gate", "protected_http"}

\* the path of the call is on the dispatch-bearing prefix
CallOnPrefix ==
    /\ ~auth_call.scope.path.none
    /\ Len(auth_call.scope.path.s) >= 4
    /\ SubSeq(auth_call.scope.path.s, 1, 4) = <<"/","m","c","p">>

\* a shared secret is configured
SecretConfigured ==
    ~auth_cfg.expected_token.none /\ auth_cfg.expected_token.s # <<>>

\* the positions of the call's headers that carry the configured header name
CredentialPositions ==
    {i \in 1..Len(auth_call.scope.headers) :
        Lower(auth_call.scope.headers[i][1]) = Lower(auth_cfg.header_name)}

CredentialPresent == CredentialPositions # {}

\* the bytes of the (first) configured header of the call
CredentialBytes ==
    auth_call.scope.headers[
        CHOOSE i \in CredentialPositions : \A j \in CredentialPositions : i <= j][2]

\* b is the bearer keyword in any letter case, one space, and then rest
HasBearerPrefix(b) ==
    /\ Len(b) >= 7
    /\ Lower(SubSeq(b, 1, 6)) = <<"b","e","a","r","e","r">>
    /\ b[7] = " "

CredentialValid ==
    /\ CredentialPresent
    /\ HasBearerPrefix(CredentialBytes)
    /\ SubSeq(CredentialBytes, 8, Len(CredentialBytes)) = auth_cfg.expected_token.s

MissingCredential == Responded(401, "Missing bearer token", TRUE)
InvalidCredential == Responded(401, "Invalid token", TRUE)
ServerMisconfigured ==
    Responded(500, "Server misconfigured: API_AUTH_TOKEN not set", FALSE)

\* C2: on the protected prefix with a configured secret S, an http call is
\* forwarded if and only if its configured header is present, starts with the
\* bearer keyword (any case) and one space, and the rest equals S; an absent
\* header or one without the bearer prefix yields MissingCredential, a bearer
\* header with another token yields InvalidCredential.
C2_BearerDecision ==
    (GateDone /\ auth_call.scope.type = "http" /\ CallOnPrefix /\ SecretConfigured) =>
        /\ auth_call.out.app_called <=> CredentialValid
        /\ (~CredentialPresent \/ ~HasBearerPrefix(CredentialBytes))
                => auth_call.out = MissingCredential
        /\ (CredentialPresent /\ HasBearerPrefix(CredentialBytes) /\ ~CredentialValid)
                => auth_call.out = InvalidCredential

\* C3: with no configured secret (None or empty) every http call to the
\* protected prefix is answered ServerMisconfigured (500), whatever its
\* headers, and before any header is looked at.
C3_NoSecretAlways500 ==
    (GateDone /\ auth_call.scope.type = "http" /\ CallOnPrefix /\ ~SecretConfigured) =>
        auth_call.out = ServerMisconfigured

\* a call with a well-formed bearer header, and one with a header that cannot
\* even be decoded, were both answered 500 for want of a secret
C3_Witness ==
    /\ GateDone /\ auth_call.scope.type = "http" /\ CallOnPrefix
    /\ auth_cfg.expected_token = Some(<<>>)
    /\ auth_call.scope.headers = <<<<T_authorization, V_not_utf8>>,
                                   <<T_authorization, V_Bearer_abc>>>>
    /\ auth_call.out.status = 500

\* C4: for every call of any scope type on the protected prefix, the wrapped
\* app runs only if the secret is configured and the call carried a valid
\* bearer credential; a call the gate answered itself never reaches the
\* wrapped app; and exactly one of {rejection response, forward} happens.
C4_GateErrorsNeverReachDispatch ==
    (GateDone /\ CallOnPrefix) =>
        /\ auth_call.out.app_called => (SecretConfigured /\ CredentialValid)
        /\ auth_call.out.status \in {401, 500} => ~auth_call.out.app_called
        /\ auth_call.out.app_called # (auth_call.out.status \in {401, 500})

\* C5: a call whose path is not on the protected prefix is handed to the
\* wrapped app unchanged with no secret or credential check; the health
\* check and the root redirect answer without authentication.
C5_OtherPathsPassThrough ==
    /\ (auth_call.phase = "done" /\ auth_call.via = "gate" /\ ~CallOnPrefix)
            => auth_call.out = Forwarded
    /\ (auth_call.phase = "done" /\ auth_call.via = "healthz")
            => auth_call.out = Responded(200, "ok", FALSE)
    /\ (auth_call.phase = "done" /\ auth_call.via = "root_redirect")
            => auth_call.out = Responded(307, "redirect", FALSE)

\* the gate passed a health-check call through although no secret is
\* configured and the call carries no header
C5_Witness ==
    /\ auth_call.phase = "done" /\ auth_call.via = "gate"
    /\ auth_call.scope.type = "http"
    /\ auth_call.scope.path = Some(T_healthz)
    /\ auth_call.scope.headers = <<>>
    /\ auth_cfg.expected_token = None
    /\ auth_call.out.app_called

\* C20: for every http call on the protected prefix and every header list,
\* the gate ends in one of its four outcomes (ServerMisconfigured,
\* MissingCredential, InvalidCredential, forward) and raises nothing.
C20_GateNeverRaises ==
    (GateDone /\ auth_call.scope.type = "http" /\ CallOnPrefix) =>
        auth_call.out \in {ServerMisconfigured, MissingCredential, InvalidCredential,
                           Forwarded}

\* the gate answered the call itself (ServerMisconfigured,
\* MissingCredential or InvalidCredential)
GateRejected == auth_call.out.status \in {401, 500}

\* C21 as stated: whenever the gate rejects a call on the protected prefix,
\* the rejection response carries the WWW-Authenticate: Bearer challenge.
C21_EveryRejectionChallenges ==
    (GateDone /\ auth_call.scope.type = "http" /\ CallOnPrefix /\ GateRejected)
        => auth_call.out.challenge

\* C21 as amended: a rejection for want of a valid credential (401) carries
\* the WWW-Authenticate: Bearer challenge, and the ServerMisconfigured (500)
\* rejection carries none.
C21_CredentialRejectionsChallenge ==
    (GateDone /\ auth_call.scope.type = "http" /\ CallOnPrefix /\ GateRejected)
        => (auth_call.out.challenge <=> auth_call.out.status = 401)

\* a call with a bearer header of another token was answered 401 with the
\* challenge
C21_Witness ==
    /\ GateDone /\ auth_call.scope.type = "http" /\ CallOnPrefix
    /\ SecretConfigured
    /\ CredentialPresent /\ HasBearerPrefix(CredentialBytes) /\ ~CredentialValid
    /\ auth_call.out.status = 401
    /\ auth_call.out.challenge

(***************************************************************************)
(* Dispatch Engine claims                                                  *)
(***************************************************************************)

\* call_tool has handled the request
DispatchDone == dsp.phase = "done"

\* the name of the request has an entry in the Registry
NameRegistered == Lookup(dsp.registry, dsp.name) # 0

\* what the registered handler of the request does with its arguments
HandlerOutcome ==
    Invoke(dsp.registry[Lookup(dsp.registry, dsp.name)].handler, dsp.arguments, dsp.remote)

C7_HandlerFaultsContained ==
    [][ /\ (dsp'.phase = "done" /\ Lookup(dsp'.registry, dsp'.name) # 0
            /\ Invoke(dsp'.registry[Lookup(dsp'.registry, dsp'.name)].handler,
                      dsp'.arguments, dsp'.remote).raised # "")
            => (dsp'.out.kind = "error" /\ dsp'.out.content = <<>>)
        /\ (dsp.phase = "done")
            => (dsp'.phase = "serving" /\ dsp'.registry = dsp.registry) ]_vars

\* search-courses with a keyword and valid terms has raised
\* NotImplementedError and the caller has been given a failure
C7_Witness ==
    /\ DispatchDone /\ NameRegistered
    /\ dsp.name = "search-courses"
    /\ dsp.remote.catalog = "up"
    /\ HandlerOutcome.raised = "NotImplementedError"
    /\ dsp.out.kind = "error"

\* the bundle carries the required field with the declared kind
FieldAsDeclared(arguments, req) ==
    IF req.field = "selections" THEN arguments.selections.islist
    ELSE arguments[req.field].t = req.kind

\* C12: for every registered command and every bundle in which a field its
\* input shape declares required is missing or of the wrong kind, the
\* handler raises InvalidArgument (ValueError or TypeError); it neither
\* substitutes a default nor returns content.
C12_RequiredFieldsValidated ==
    (DispatchDone /\ NameRegistered
        /\ \E req \in RequiredFields(dsp.name) : ~FieldAsDeclared(dsp.arguments, req))
    => (HandlerOutcome.raised \in {"ValueError", "TypeError"}
            /\ HandlerOutcome.content = <<>>)

\* C19: when the outbound lookup of a handler fails or times out, the
\* handler returns an "unable to fetch" message as its result; the exception
\* of the failed lookup does not leave the handler.
C19_UpstreamFailureRecovered ==
    (DispatchDone /\ NameRegistered) =>
        /\ HandlerOutcome.raised # "ConnectionError"
        /\ (dsp.name = "get-alert" /\ dsp.remote.nws = "failed"
                /\ dsp.arguments.state.t = "str" /\ Len(Strip(dsp.arguments.state.s)) = 2)
            => HandlerOutcome.content = <<Text("Unable to fetch alerts or no alerts found.")>>

\* the listener is bound: calls are accepted
Listening == dsp.phase \in {"serving", "received", "done"}

\* the Registry holds what register_all_tools leaves behind
RegistryPopulated ==
    /\ dsp.registry # <<>>
    /\ \E listing \in RepoListings :
            dsp.registry = register_all_tools(listing, <<>>, 1)

\* C22: without a configured secret, startup fails before auto-discovery
\* runs and before the listener binds, so no call is ever accepted by a
\* process without a secret; with a secret, the Registry is populated by
\* register_all_tools before the listener starts accepting calls.
C22_StartupOrdering ==
    /\ ~SecretConfigured =>
            (dsp.phase \in {"idle", "exited"} /\ dsp.registry = <<>>)
    /\ Listening => (SecretConfigured /\ RegistryPopulated)
    /\ dsp.phase = "exited" => ~SecretConfigured

\* a process whose token is set to the empty string ended at the check,
\* with nothing registered
C22_Witness ==
    /\ auth_cfg.expected_token = Some(<<>>)
    /\ dsp.phase = "exited"
    /\ dsp.registry = <<>>

\* the calls that registered name, by their place in the sequence of calls
RegistrationsOf(name) == {i \in 1..Len(dsp.calls) : dsp.calls[i].name = name}

\* the most recent of them
LastRegistration(name) ==
    CHOOSE i \in RegistrationsOf(name) : \A j \in RegistrationsOf(name) : j <= i

\* the descriptors list() shows for name
Listed(name) ==
    {i \in 1..Len(list_all_tools(dsp.registry)) : list_all_tools(dsp.registry)[i] = name}

\* C23: after any sequence of register calls, list() holds exactly one
\* descriptor per distinct registered name (and none for other names), and
\* lookup(name) returns the handler of the most recent registration of name.
C23_LastWriterWins ==
    \A name \in RegNames :
        IF RegistrationsOf(name) = {}
        THEN Listed(name) = {} /\ Lookup(dsp.registry, name) = 0
        ELSE /\ Cardinality(Listed(name)) = 1
             /\ Lookup(dsp.registry, name) \in Listed(name)
             /\ dsp.registry[Lookup(dsp.registry, name)].handler
                    = dsp.calls[LastRegistration(name)].handler

\* get-alert was registered, then another name, then get-alert again with
\* another handler; list() shows two descriptors and lookup the later handler
C23_Witness ==
    /\ Len(dsp.calls) = 3
    /\ dsp.calls[1] = [name |-> "get-alert", handler |-> "get_alerts_handler"]
    /\ dsp.calls[2].name = "get-course"
    /\ dsp.calls[3] = [name |-> "get-alert", handler |-> "get_course_handler"]
    /\ Len(list_all_tools(dsp.registry)) = 2
    /\ dsp.registry[Lookup(dsp.registry, "get-alert")].handler = "get_course_handler"

\* what the register_all of every module shipped under tools/ registers
ShippedRegistry ==
    notification_register_all(weather_register_all(course_catalog_register_all(<<>>)))

\* C25: once register_all_tools has completed with no group failing, the
\* register_all of every handler module shipped under tools/ has been
\* invoked, the single-file notification module included, so every shipped
\* command is in the Registry before the first dispatch.
C25_DiscoveryCoverage ==
    Listening =>
        \A i \in 1..Len(ShippedRegistry) :
            Lookup(dsp.registry, ShippedRegistry[i].name) # 0

(***************************************************************************)
(* Auto-Discovery claims                                                   *)
(***************************************************************************)

\* the entry the loop handled last, once it has handled one
EntryHandled == Len(disc.seen) > 0

ImportFailureEvents ==
    {"import_failed:pkg", "import_failed:same_name", "import_failed:tool",
     "import_failed:path_same_name", "import_failed:path_tool",
     "import_failed:path_name_tool"}

InvokeEvents ==
    {"invoke:pkg", "invoke:same_name", "invoke:tool", "invoke:path_same_name",
     "invoke:path_tool", "invoke:path_name_tool"}

\* C8: a register_all that raises while it is invoked, under any convention
\* and also at the package's own entry point, is caught and discovery goes
\* on with the next group: register_all_tools never raises.
C8_InvocationIsolated == disc.pc # "aborted"

\* C9: a group whose package or entry-point module raises on import never
\* ends discovery, and every well-formed group the loop comes to, before or
\* after such a group, has had its register_all invoked and returned.
C9_ImportIsolation ==
    /\ \A i \in 1..Len(disc.seen) :
            disc.seen[i].well_formed =>
                (disc.seen[i].registered /\ disc.seen[i].invoked = 1)
    /\ \A i \in 1..Len(disc.seen) :
            disc.seen[i].import_failed =>
                (i < Len(disc.seen) \/ disc.pc # "aborted")

\* a group whose package raised on import was followed by a well-formed
\* group, which registered, and discovery returned
C9_Witness ==
    /\ disc.pc = "done"
    /\ Len(disc.seen) = 2
    /\ disc.seen[1].import_failed /\ ~disc.seen[1].registered
    /\ disc.seen[2].well_formed /\ disc.seen[2].registered
    /\ disc.entry.pkg = "no_register" /\ disc.entry.same_name = "register_ok"

\* some convention of the group yields a callable register_all
HasEntryPoint(e) ==
    \E st \in {e.pkg, e.same_name, e.tool, e.name_tool} :
        st \in {"register_ok", "register_raises"}

\* the place of an event's convention in the fixed order
ConventionRank(ev) ==
    CASE ev \in {"import:pkg", "import_failed:pkg", "invoke:pkg", "raise:pkg"} -> 1
      [] ev \in {"import:same_name", "import_failed:same_name", "not_found:same_name",
                 "invoke:same_name", "raise:same_name"} -> 2
      [] ev \in {"import:tool", "import_failed:tool", "not_found:tool",
                 "invoke:tool", "raise:tool"} -> 3
      [] OTHER -> 4

\* C10: for each group the conventions are tried in the fixed order,
\* discovery of the group stops at the first convention that yields a
\* callable entry point, a register_all is invoked at most once per group
\* and exactly once when some convention yields one, and a group with no
\* entry point is skipped without failing startup.
C10_FirstConventionOnce ==
    (EntryHandled /\ disc.entry.is_dir) =>
        LET ev == disc.last.events IN
        /\ \A i, j \in 1..Len(ev) :
                i < j => ConventionRank(ev[i]) <= ConventionRank(ev[j])
        /\ \A i, j \in 1..Len(ev) :
                (i < j /\ ev[i] \in InvokeEvents) => ConventionRank(ev[j]) = ConventionRank(ev[i])
        /\ disc.last.invoked <= 1
        /\ HasEntryPoint(disc.entry) => disc.last.invoked = 1
        /\ ~HasEntryPoint(disc.entry) =>
                (disc.last.invoked = 0 /\ disc.pc # "aborted")

(***************************************************************************)
(* check-time-conflicts claims                                             *)
(***************************************************************************)

\* the handler has returned content for the call
CtcReturned == ctc_call.phase = "done" /\ ctc_call.out.raised = ""

\* two intervals overlap
Overlap(a, b) == a.start < b.end /\ b.start < a.end

\* who an interval belongs to and the labels of its window
Named(x) ==
    [course_id |-> x.course_id, section_id |-> x.section_id,
     start_str |-> x.start_str, end_str |-> x.end_str]

\* some conflict line of the result names x and y on this day
Reported(day, x, y) ==
    \E k \in 1..Len(ctc_call.out.conflicts) :
        /\ ctc_call.out.conflicts[k].day = day
        /\ {ctc_call.out.conflicts[k].a, ctc_call.out.conflicts[k].b}
                = {Named(x), Named(y)}

\* C1: within every day bucket, every unordered pair of intervals with
\* a.start < b.end and b.start < a.end is reported as a conflict, also when
\* the two are not neighbours in (start, end) order.
C1_AllOverlapsReported ==
    CtcReturned =>
        \A day \in Days :
            LET bucket == ctc_call.out.buckets[day] IN
            \A i, j \in 1..Len(bucket) :
                (i < j /\ Overlap(bucket[i], bucket[j]))
                    => Reported(day, bucket[i], bucket[j])

\* the conflict lines of the result that name x and y on this day
LinesNaming(day, x, y) ==
    {k \in 1..Len(ctc_call.out.conflicts) :
        /\ ctc_call.out.conflicts[k].day = day
        /\ {ctc_call.out.conflicts[k].a, ctc_call.out.conflicts[k].b}
                = {Named(x), Named(y)}}

\* no two intervals of the bucket belong to the same section and window
DistinctlyNamed(bucket) ==
    \A i, j \in 1..Len(bucket) : i # j => Named(bucket[i]) # Named(bucket[j])

\* C13: every overlapping unordered pair of intervals of a day bucket has
\* exactly one conflict line, which names both (course, section) pairs with
\* their time labels.
C13_OneLinePerOverlap ==
    CtcReturned =>
        \A day \in Days :
            LET bucket == ctc_call.out.buckets[day] IN
            DistinctlyNamed(bucket) =>
                \A i, j \in 1..Len(bucket) :
                    (i < j /\ Overlap(bucket[i], bucket[j]))
                        => Cardinality(LinesNaming(day, bucket[i], bucket[j])) = 1

\* one window ends at the minute the other starts
Touching(a, b) == a.end = b.start \/ b.end = a.start

\* C14: two intervals of the same day of which one ends at the minute the
\* other starts are never reported as a conflict.
C14_TouchingNotReported ==
    CtcReturned =>
        \A day \in Days :
            LET bucket == ctc_call.out.buckets[day] IN
            \A i, j \in 1..Len(bucket) :
                (i < j /\ Touching(bucket[i], bucket[j]) /\ ~Overlap(bucket[i], bucket[j]))
                    => LinesNaming(day, bucket[i], bucket[j]) = {}

\* 8:00-9:00 and 9:00-11:00 on Monday were checked and nothing was reported
C14_Witness ==
    /\ CtcReturned
    /\ ctc_call.selections = ListOf(<<Selection(Num(1), Num(13)), Selection(Num(1), Num(34))>>)
    /\ Len(ctc_call.out.buckets["Monday"]) = 2
    /\ ctc_call.out.conflicts = <<>>

\* the handler has ended and the remote catalog answered its lookups
CtcEnded == ctc_call.phase = "done" /\ ctc_call.remote = "up"

\* selections is a non-empty list of objects, each with a numeric course_id
\* and section_id that name a section of the catalog
SelectionsValid ==
    /\ ctc_call.selections.islist
    /\ ctc_call.selections.items # <<>>
    /\ \A i \in 1..Len(ctc_call.selections.items) :
        LET item == ctc_call.selections.items[i] IN
        /\ item.isdict /\ item.course_id.isnum /\ item.section_id.isnum
        /\ <<item.course_id.n, item.section_id.n>> \in CatalogKeys

\* the schedules the catalog holds for the section a valid selection names
SchedulesOf(item) ==
    LET c == CHOOSE c \in 1..Len(Catalog) : Catalog[c].course_id = item.course_id.n
        k == CHOOSE k \in 1..Len(Catalog[c].sections) :
                Catalog[c].sections[k].class_id = item.section_id.n
    IN  Catalog[c].sections[k].schedules

\* a schedule with a start or end label that is no time, or without days
Degraded(sched) ==
    sched.start_time.kind # "time" \/ sched.end_time.kind # "time" \/ sched.days = <<>>

\* how many degraded schedules the selections from the i-th on bring
RECURSIVE DegradedFrom(_)
DegradedFrom(i) ==
    IF i > Len(ctc_call.selections.items) THEN 0
    ELSE Cardinality({j \in 1..Len(SchedulesOf(ctc_call.selections.items[i])) :
                        Degraded(SchedulesOf(ctc_call.selections.items[i])[j])})
         + DegradedFrom(i + 1)

\* the lines of the text item that warn of a schedule left out
WarningLines ==
    {k \in 1..Len(ctc_call.out.lines) :
        /\ ctc_call.out.lines[k].line = "note"
        /\ ctc_call.out.lines[k].note.kind \in {"unparseable", "no_days"}}

\* interval x of the bucket of day comes from schedule sched of item
IntervalOf(x, day, item, sched) ==
    /\ x.course_id = item.course_id.n /\ x.section_id = item.section_id.n
    /\ x.start_str = sched.start_time.text /\ x.end_str = sched.end_time.text
    /\ \E d \in 1..Len(sched.days) : sched.days[d] = day

\* C15: a schedule whose start or end label cannot be parsed, or that has no
\* meeting days, adds exactly one warning line, puts no interval into any
\* day bucket and so is in no conflict line, and does not end the call; the
\* other schedules are still put into their buckets and checked.
C15_DegradedSchedulesWarn ==
    (CtcEnded /\ SelectionsValid) =>
        LET items == ctc_call.selections.items IN
        /\ ctc_call.out.raised = ""
        /\ Cardinality(WarningLines) = DegradedFrom(1)
        /\ \A day \in Days : \A n \in 1..Len(ctc_call.out.buckets[day]) :
                \E i \in 1..Len(items) : \E j \in 1..Len(SchedulesOf(items[i])) :
                    /\ ~Degraded(SchedulesOf(items[i])[j])
                    /\ IntervalOf(ctc_call.out.buckets[day][n], day, items[i],
                                  SchedulesOf(items[i])[j])
        /\ \A i \in 1..Len(items) : \A j \in 1..Len(SchedulesOf(items[i])) :
                LET sched == SchedulesOf(items[i])[j] IN
                ~Degraded(sched) =>
                    \A d \in 1..Len(sched.days) :
                        \E n \in 1..Len(ctc_call.out.buckets[sched.days[d]]) :
                            IntervalOf(ctc_call.out.buckets[sched.days[d]][n],
                                       sched.days[d], items[i], sched)
        /\ \A k \in 1..Len(ctc_call.out.conflicts) :
                LET line == ctc_call.out.conflicts[k] IN
                \E m, n \in 1..Len(ctc_call.out.buckets[line.day]) :
                    /\ line.a = Named(ctc_call.out.buckets[line.day][m])
                    /\ line.b = Named(ctc_call.out.buckets[line.day][n])

\* a section with a "TBD" start and a usable second schedule, a schedule
\* without days and an 8:00-12:00 section: two warnings, and the usable
\* schedule conflicts with the 8:00-12:00 one
C15_Witness ==
    /\ CtcEnded
    /\ ctc_call.selections = ListOf(<<Selection(Num(2), Num(28)), Selection(Num(2), Num(25)),
                                      Selection(Num(1), Num(15))>>)
    /\ Cardinality(WarningLines) = 2
    /\ Len(ctc_call.out.buckets["Monday"]) = 2
    /\ Len(ctc_call.out.conflicts) = 1

\* C16: when selections is not a non-empty list, or some selection at any
\* position is not an object with numeric course_id and section_id, or names
\* an unknown course or section, the call fails with InvalidArgument
\* (ValueError or TypeError) and returns nothing: no conflict line and no
\* warning line of the selections before the invalid one.
C16_AllOrNothing ==
    (CtcEnded /\ ~SelectionsValid) =>
        /\ ctc_call.out.raised \in {"ValueError", "TypeError"}
        /\ ctc_call.out.lines = <<>>
        /\ ctc_call.out.conflicts = <<>>
        /\ ctc_call.out.messages = <<>>

\* two overlapping sections and a "TBD" one came before a selection with an
\* unknown section, and the call raised
C16_Witness ==
    /\ CtcEnded
    /\ Len(ctc_call.selections.items) = 3
    /\ ctc_call.selections.items[1] = Selection(Num(2), Num(21))
    /\ ctc_call.selections.items[2] = Selection(Num(1), Num(15))
    /\ ctc_call.selections.items[3] = Selection(Num(1), Num(99))
    /\ ctc_call.out.raised = "ValueError"

\* the lines of the text item of one kind
LinesOf(kind) ==
    {k \in 1..Len(ctc_call.out.lines) : ctc_call.out.lines[k].line = kind}

\* C17: a call that succeeds returns one text item with one line for each
\* conflict it detected and one line for each warning, and with the "No
\* conflicts detected" line if and only if it detected no conflict, warnings
\* or not.
C17_OutputShape ==
    CtcReturned =>
        /\ \A k \in 1..Len(ctc_call.out.conflicts) :
                Cardinality({n \in LinesOf("conflict") :
                    ctc_call.out.lines[n].conflict = ctc_call.out.conflicts[k]})
                = Cardinality({n \in 1..Len(ctc_call.out.conflicts) :
                    ctc_call.out.conflicts[n] = ctc_call.out.conflicts[k]})
        /\ Cardinality(LinesOf("conflict")) = Len(ctc_call.out.conflicts)
        /\ Cardinality(LinesOf("note")) = Len(ctc_call.out.messages)
        /\ Cardinality(LinesOf("no_conflicts")) =
                (IF ctc_call.out.conflicts = <<>> THEN 1 ELSE 0)

\* a call with a warning and no conflict said "No conflicts detected"
C17_Witness ==
    /\ CtcReturned
    /\ ctc_call.out.messages # <<>>
    /\ Len(ctc_call.out.buckets["Monday"]) = 2
    /\ ctc_call.out.conflicts = <<>>
    /\ LinesOf("no_conflicts") # {}

\* the k-th conflict line names two different intervals of the bucket of
\* its day, and the two overlap
SoundLine(k) ==
    LET line == ctc_call.out.conflicts[k]
        bucket == ctc_call.out.buckets[line.day]
    IN  \E i, j \in 1..Len(bucket) :
            /\ i # j
            /\ Named(bucket[i]) = line.a
            /\ Named(bucket[j]) = line.b
            /\ Overlap(bucket[i], bucket[j])

\* C24: every conflict line names two intervals of the bucket of its day
\* that overlap (a.start < b.end and b.start < a.end), also when an interval
\* ends at or before the minute it starts; intervals of different days are
\* never reported against each other.
C24_ConflictLinesSound ==
    CtcReturned =>
        \A k \in 1..Len(ctc_call.out.conflicts) :
            /\ ctc_call.out.conflicts[k].day \in Days
            /\ SoundLine(k)

(***************************************************************************)
(* Event loop claims                                                       *)
(***************************************************************************)

\* C11: while one call waits on a slow remote lookup, another call that is
\* ready to run can be dispatched: the waiting call does not hold the loop.
C11_LookupsDoNotHoldLoop ==
    \A c, d \in 1..MaxCalls :
        (c # d /\ loop.calls[c].pc = "lookup" /\ loop.calls[d].pc \in {"pending", "ready"})
            => loop.holder = 0

(***************************************************************************)
(* Catalog connection claims                                               *)
(***************************************************************************)

\* C18: the connection is created only on first use; two uses with no reset
\* between them get the same handle, so at most one is created between two
\* resets; the first use after a reset (also the reset of the shutdown) gets
\* a fresh handle in the same process.
C18_SharedConnection ==
    /\ conn.last.handle = 0 => conn.created = 0
    /\ conn.created <= conn.resets + 1
    /\ (conn.prev.handle # 0 /\ conn.prev.resets = conn.last.resets)
            => conn.last.handle = conn.prev.handle
    /\ (conn.prev.handle # 0 /\ conn.prev.resets # conn.last.resets)
            => conn.last.handle # conn.prev.handle
    /\ conn.handle # 0 => conn.handle = conn.last.handle

\* a handler used the connection, the application shut down and its
\* lifespan was entered again, and the next use got another handle
C18_Witness ==
    /\ conn.serving
    /\ conn.prev.handle = 1 /\ conn.prev.resets = 0
    /\ conn.last.handle = 2 /\ conn.last.resets = 2
    /\ conn.created = 2

====
